---- MODULE Spec2Model ----
(***************************************************************************)
(* amateurlog: terms (atoms, variables, compound terms), the clause store  *)
(* (Database) and the resolver (Database::satisfy / Database::unify) of    *)
(* src/src/lib.rs.                                                         *)
(*                                                                         *)
(* Rust values are owned trees: a Variable is a struct stored inside the   *)
(* term that holds it, and VariableBinding::Variable holds a boxed COPY of *)
(* the other variable, so terms are modelled as nested records and every   *)
(* clone() is the value itself.  Variable.alias (a random debugging label),*)
(* Functor.body and Functor.state are never read by satisfy or unify and   *)
(* are left out of the records.                                            *)
(***************************************************************************)
EXTENDS Integers, Sequences, FiniteSets, TLC

VARIABLES facts, goal, answer, db, attempts, op,
          ufst, usnd, ures, uop

vars == <<facts, goal, answer, db, attempts, op, ufst, usnd, ures, uop>>
dbvars == <<facts, goal, answer, db, attempts, op>>
uvars == <<ufst, usnd, ures, uop>>

(* ------------------------------ bounds -------------------------------- *)
\* Largest number of clauses added to the store.
MaxFacts == 2
\* Largest number of times in a row an answer is handed back as the next goal.
MaxResubmit == 2
\* Largest number of calls of unify on terms that earlier calls worked on.
MaxCalls == 3

(* ---------------------------- term model ------------------------------ *)
\* Option::None, for Variable.bound_to and for the result of resolve.
None == [kind |-> "None"]

\* Term::Atom(Atom(s)) and Some(VariableBinding::Atom(Atom(s))).
AtomOf(s) == [kind |-> "Atom", atom |-> s]

\* Term::Variable(v) and Some(VariableBinding::Variable(Box::new(v))).
VariableOf(v) == [kind |-> "Variable", var |-> v]

\* Term::Functor(Box::new(f)).
FunctorOf(f) == [kind |-> "Functor", functor |-> f]

\* Variable::new_named: a fresh variable is unbound.
new_named(n) == [name |-> n, bound_to |-> None]

\* Variable::bind: overwrites bound_to, whatever it held.
bind(v, binding) == [v EXCEPT !.bound_to = binding]

\* Variable::resolve: follow the chain of boxed variables to an atom.
RECURSIVE resolve(_)
resolve(v) ==
    IF v.bound_to.kind = "Atom" THEN v.bound_to
    ELSE IF v.bound_to.kind = "Variable" THEN resolve(v.bound_to.var)
    ELSE None

\* Variable::resolves_to
resolves_to(v, a) ==
    LET r == resolve(v) IN IF r.kind = "Atom" THEN r.atom = a ELSE FALSE

\* Variable::is_bound
is_bound(v) == v.bound_to.kind # "None"

\* Functor::new_rule with an empty body (Functor::new_fact): ix starts at 0.
new_fact(n, args) == [name |-> n, args |-> args, ix |-> 0]

\* A candidate test that forgets the name.
FunctorEqArityOnly(f, g) == Len(f.args) = Len(g.args)

\* impl PartialEq for Functor: name and argument count, nothing else.
FunctorEq(f, g) == f.name = g.name /\ Len(f.args) = Len(g.args)

Min(x, y) == IF x < y THEN x ELSE y

(* ------------------------------ unifier ------------------------------- *)
\* The (Term::Variable, Term::Variable) arm of unify, lines 213-223.
UnifyVarVar(fst_v, snd_v) ==
    LET rf == resolve(fst_v)
        rs == resolve(snd_v)
    IN  IF rf.kind = "None" /\ rs.kind = "None" THEN
            LET f2 == bind(fst_v, VariableOf(snd_v))
                s2 == bind(snd_v, VariableOf(f2))
            IN  [ok |-> TRUE, fst |-> VariableOf(f2), snd |-> VariableOf(s2)]
        ELSE IF rf.kind = "Atom" /\ rs.kind = "None" THEN
            [ok |-> TRUE, fst |-> VariableOf(fst_v),
             snd |-> VariableOf(bind(snd_v, AtomOf(rf.atom)))]
        ELSE IF rf.kind = "None" /\ rs.kind = "Atom" THEN
            [ok |-> TRUE, fst |-> VariableOf(bind(fst_v, AtomOf(rs.atom))),
             snd |-> VariableOf(snd_v)]
        ELSE
            [ok |-> FALSE, fst |-> VariableOf(fst_v), snd |-> VariableOf(snd_v)]

\* The (Term::Functor, Term::Functor) arm, lines 227-233: the callee works on
\* fst_f in place and on a clone of snd_f; only is_some() of its result is used.
NestedResult(fst_term, snd_term, r) ==
    [ok |-> r.ok, fst |-> FunctorOf(r.fst), snd |-> snd_term]

RECURSIVE unify(_, _)
RECURSIVE UnifyArgs(_, _, _)
RECURSIVE UnifyTerm(_, _)

\* One iteration of the for loop of unify: the match on (fst_term, snd_term).
\* ok = FALSE is `return None`; fst and snd are the two terms after the arm.
UnifyTerm(fst_term, snd_term) ==
    LET same == [ok |-> TRUE, fst |-> fst_term, snd |-> snd_term]
        fail == [ok |-> FALSE, fst |-> fst_term, snd |-> snd_term]
    IN  IF fst_term.kind = "Atom" /\ snd_term.kind = "Atom" THEN
            IF fst_term.atom = snd_term.atom THEN same ELSE fail
        ELSE IF fst_term.kind = "Atom" /\ snd_term.kind = "Variable" THEN
            IF resolves_to(snd_term.var, fst_term.atom) THEN same
            ELSE IF is_bound(snd_term.var) THEN fail
            ELSE [ok |-> TRUE, fst |-> fst_term,
                  snd |-> VariableOf(bind(snd_term.var, AtomOf(fst_term.atom)))]
        ELSE IF fst_term.kind = "Atom" /\ snd_term.kind = "Functor" THEN fail
        ELSE IF fst_term.kind = "Variable" /\ snd_term.kind = "Atom" THEN
            IF ~is_bound(fst_term.var) THEN
                [ok |-> TRUE,
                 fst |-> VariableOf(bind(fst_term.var, AtomOf(snd_term.atom))),
                 snd |-> snd_term]
            ELSE IF resolves_to(fst_term.var, snd_term.atom) THEN same
            ELSE fail
        ELSE IF fst_term.kind = "Variable" /\ snd_term.kind = "Variable" THEN
            UnifyVarVar(fst_term.var, snd_term.var)
        ELSE IF fst_term.kind = "Variable" /\ snd_term.kind = "Functor" THEN fail
        ELSE IF fst_term.kind = "Functor" /\ snd_term.kind = "Atom" THEN fail
        ELSE IF fst_term.kind = "Functor" /\ snd_term.kind = "Variable" THEN fail
        ELSE NestedResult(fst_term, snd_term,
                          unify(fst_term.functor, snd_term.functor))

\* The for loop over fst.args zipped with snd.args, from pair i on.
UnifyArgs(fst, snd, i) ==
    IF i > Min(Len(fst.args), Len(snd.args)) THEN
        [ok |-> TRUE, fst |-> fst, snd |-> snd]
    ELSE
        LET r  == UnifyTerm(fst.args[i], snd.args[i])
            f2 == [fst EXCEPT !.args[i] = r.fst]
            s2 == [snd EXCEPT !.args[i] = r.snd]
        IN  IF r.ok THEN UnifyArgs(f2, s2, i + 1)
            ELSE [ok |-> FALSE, fst |-> f2, snd |-> s2]

\* Database::unify(fst: &mut Functor, snd: Functor) -> Option<Functor>.
\* ok is is_some(), snd the returned functor, fst the caller's functor after
\* the call (it is written through the &mut whether or not the call succeeds).
unify(fst, snd) == UnifyArgs(fst, snd, 1)

(* --------------------------- clause store ----------------------------- *)
\* Option<Functor>: the result of satisfy.
NoAnswer == [some |-> FALSE]
SomeAnswer(f) == [some |-> TRUE, val |-> f]

\* Database::add: stamp the insertion index and push.
add(fs, functor) == Append(fs, [functor EXCEPT !.ix = Len(fs)])

(* ------------------------------ resolver ------------------------------ *)
\* The state of one run of satisfy: self.facts, the clone db.facts, the
\* value returned so far, and a log of the calls of unify it made.
StartRun(fs) ==
    [self |-> fs, db |-> fs, result |-> NoAnswer, log |-> <<>>]

\* unify handed a &mut into self.facts as well: no private copy.
WriteBackLive(st, i, f) == [st EXCEPT !.db[i] = f, !.self[i] = f]

\* `matched` is a &mut into db.facts, the clone: unify writes there.
WriteBack(st, i, f) == [st EXCEPT !.db[i] = f]

\* The body of `if matched == &g`: clone the goal, unify, return on success.
Attempt(st, g0, i) ==
    LET matched == st.db[i]
        g  == g0
        r  == unify(matched, g)
        s2 == WriteBack(st, i, r.fst)
    IN  [s2 EXCEPT
            !.result = IF r.ok THEN SomeAnswer(r.snd) ELSE NoAnswer,
            !.log = Append(st.log, [ix |-> i, fst_in |-> matched, snd_in |-> g,
                                    ok |-> r.ok, fst_out |-> r.fst])]

\* A scan that does not return at the first success: the last one wins.
RECURSIVE SatisfyLoopLast(_, _, _)
SatisfyLoopLast(st, g0, i) ==
    IF i > Len(st.db) THEN st
    ELSE IF FunctorEq(st.db[i], g0) THEN
        LET s2 == Attempt(st, g0, i)
            s3 == SatisfyLoopLast(s2, g0, i + 1)
        IN  IF s3.result.some \/ ~st.result.some THEN s3
            ELSE [s3 EXCEPT !.result = st.result]
    ELSE SatisfyLoopLast(st, g0, i + 1)

\* The while loop of satisfy from clause i on (1-based position in facts).
RECURSIVE SatisfyLoop(_, _, _)
SatisfyLoop(st, g0, i) ==
    IF i > Len(st.db) THEN st
    ELSE IF FunctorEq(st.db[i], g0) THEN
        LET s2 == Attempt(st, g0, i)
        IN  IF s2.result.some THEN s2 ELSE SatisfyLoop(s2, g0, i + 1)
    ELSE SatisfyLoop(st, g0, i + 1)

\* Database::satisfy(&mut self, goal) -> Option<Functor>.
satisfy(fs, g0) == SatisfyLoop(StartRun(fs), g0, 1)

(* ------------------------------- inputs ------------------------------- *)
\* Terms the callers build with Term::atom_from_str, Term::variable_from_str,
\* Variable::bind (public) and Functor::new_fact.
A == AtomOf("a")
B == AtomOf("b")
X == VariableOf(new_named("X"))
Y == VariableOf(new_named("Y"))
Xa == VariableOf(bind(new_named("X"), AtomOf("a")))
Ya == VariableOf(bind(new_named("Y"), AtomOf("a")))
F(n, args) == FunctorOf(new_fact(n, args))

\* Clauses a caller adds to the store.
Clauses ==
    { new_fact("p", <<A>>), new_fact("p", <<B>>), new_fact("p", <<Y>>),
      new_fact("p", <<Ya>>), new_fact("q", <<A>>),
      new_fact("p", <<A, B>>), new_fact("p", <<Y, B>>), new_fact("p", <<B, A>>),
      new_fact("p", <<F("f", <<A>>)>>), new_fact("p", <<F("f", <<A, B>>)>>),
      new_fact("p", <<F("f", <<F("f", <<A>>)>>)>>) }

\* Goals a caller submits.
Goals ==
    { new_fact("p", <<X>>), new_fact("p", <<A>>), new_fact("p", <<Xa>>),
      new_fact("q", <<X>>), new_fact("p", <<>>),
      new_fact("p", <<X, A>>), new_fact("p", <<X, B>>), new_fact("p", <<A, X>>),
      new_fact("p", <<F("f", <<X>>)>>), new_fact("p", <<F("g", <<A>>)>>),
      new_fact("p", <<F("f", <<A>>)>>),
      new_fact("p", <<F("f", <<F("f", <<X>>)>>)>>) }

(* --------------------------- the store's life ------------------------- *)
\* Database::new(): no clause; nothing asked yet.
Init ==
    /\ facts = <<>>
    /\ goal = NoAnswer
    /\ answer = NoAnswer
    /\ db = <<>>
    /\ attempts = <<>>
    /\ op = [name |-> "new", resubmits |-> 0]
    /\ ufst = new_fact("p", <<>>)
    /\ usnd = new_fact("p", <<>>)
    /\ ures = [ok |-> TRUE, fst |-> new_fact("p", <<>>), snd |-> new_fact("p", <<>>)]
    /\ uop = [name |-> "none", calls |-> 0]

\* db.add(c)
Add ==
    /\ Len(facts) < MaxFacts
    /\ \E c \in Clauses : facts' = add(facts, c)
    /\ op' = [op EXCEPT !.name = "add"]
    /\ UNCHANGED <<goal, answer, db, attempts>>
    /\ UNCHANGED uvars

\* The effect of db.satisfy(g) on the store and on what the caller holds.
Run(g, name, n) ==
    LET st == satisfy(facts, g)
    IN  /\ facts' = st.self
        /\ goal' = SomeAnswer(g)
        /\ answer' = st.result
        /\ db' = st.db
        /\ attempts' = st.log
        /\ op' = [name |-> name, resubmits |-> n]
        /\ UNCHANGED uvars

\* db.satisfy(g) for a goal the caller builds.
Satisfy == \E g \in Goals : Run(g, "satisfy", 0)

\* db.satisfy(answer): the answer of the last call is the next goal.
Resubmit ==
    /\ answer.some
    /\ op.resubmits < MaxResubmit
    /\ Run(answer.val, "resubmit", op.resubmits + 1)

Next == Add \/ Satisfy \/ Resubmit

Spec == Init /\ [][Next]_vars

(* ------------------------- unify, call by call ------------------------ *)
\* One call self.unify(&mut f, s): ufst and usnd are the two functors as
\* passed, ures.fst is f after the call, ures.snd the functor returned (or,
\* when ures.ok is false, the moved functor as it was when the call ended).
Call(f, s, name) ==
    /\ uop.calls < MaxCalls
    /\ ufst' = f
    /\ usnd' = s
    /\ ures' = unify(f, s)
    /\ uop' = [name |-> name, calls |-> uop.calls + 1]
    /\ UNCHANGED dbvars

\* unify on two functors no call has touched.
UnifyFresh == \E f \in Clauses, s \in Goals : Call(f, s, "fresh")

\* unify again on the functor behind the &mut, with another second functor.
UnifyAgainFst ==
    /\ uop.calls > 0
    /\ \E s \in Goals : Call(ures.fst, s, "fst")

\* unify again on the functor the last call returned, with another first one.
UnifyAgainSnd ==
    /\ uop.calls > 0 /\ ures.ok
    /\ \E f \in Clauses : Call(f, ures.snd, "snd")

UnifyNext == UnifyFresh \/ UnifyAgainFst \/ UnifyAgainSnd

UnifySpec == Init /\ [][UnifyNext]_vars

(* ------------------------ claims about satisfy ------------------------ *)
\* The state right after a call of satisfy.
AfterSatisfy == op.name \in {"satisfy", "resubmit"}

\* Clause i of the live store has the goal's name and argument count.
Candidate(i) ==
    /\ facts[i].name = goal.val.name
    /\ Len(facts[i].args) = Len(goal.val.args)

\* Clause i of the live store unifies with the caller's goal.
Unifies(i) == Candidate(i) /\ unify(facts[i], goal.val).ok

\* C1: whenever satisfy returns an answer, it is the result of unifying the
\* goal with the lowest-index stored clause that has the goal's name and
\* argument count and unifies with it; every clause before it differs in
\* name/argument count or failed to unify, and no clause after it is examined.
C1_FirstUnifyingClause ==
    (AfterSatisfy /\ answer.some) =>
        \E i \in 1..Len(facts) :
            /\ Unifies(i)
            /\ facts[i].ix = i - 1
            /\ answer.val = unify(facts[i], goal.val).snd
            /\ \A j \in 1..(i - 1) : ~Unifies(j)
            /\ \A k \in 1..Len(attempts) : attempts[k].ix <= i

\* An answer taken from the second clause after the first, a candidate too,
\* failed to unify.
C1_Witness ==
    /\ AfterSatisfy /\ answer.some
    /\ Len(attempts) = 2
    /\ attempts[1].ix = 1 /\ ~attempts[1].ok
    /\ attempts[2].ix = 2 /\ attempts[2].ok

\* C3: satisfy returns none exactly when no stored clause with the goal's
\* name and argument count unifies with the goal (an empty store included).
C3_NoneIffNoClauseUnifies ==
    AfterSatisfy =>
        (~answer.some <=> ~(\E i \in 1..Len(facts) : Unifies(i)))

\* None returned after a candidate was tried and failed, with a clause of
\* another name or argument count in the store as well.
C3_Witness ==
    /\ AfterSatisfy /\ ~answer.some
    /\ Len(facts) = 2 /\ Len(attempts) = 1
    /\ ~attempts[1].ok

\* C4: a call of satisfy leaves the live store as it was (same clauses, same
\* order, same bindings), and every candidate attempt of the call starts from
\* the stored clause and from the caller's goal as submitted, whatever the
\* attempts before it bound; the answer is built from that goal alone.
C4_StoreAndGoalIsolated ==
    [][AfterSatisfy' =>
          /\ facts' = facts
          /\ \A k \in 1..Len(attempts') :
                /\ attempts'[k].snd_in = goal'.val
                /\ attempts'[k].fst_in = facts[attempts'[k].ix]
          /\ answer'.some =>
                answer'.val =
                    unify(facts[attempts'[Len(attempts')].ix], goal'.val).snd]_vars

\* A call in which a failed attempt bound a variable of a stored clause's
\* working copy and a variable of its copy of the goal, and a later attempt
\* gave the answer.
C4_Witness ==
    /\ AfterSatisfy /\ answer.some
    /\ Len(attempts) = 2
    /\ ~attempts[1].ok
    /\ attempts[1].fst_out # attempts[1].fst_in
    /\ db # facts

\* The clause the answer of the last call was taken from.
Chosen == facts[attempts[Len(attempts)].ix]

\* Every unbound variable of goal term g that stands opposite an atom of
\* clause term c resolves to that atom in answer term r, at any depth.
RECURSIVE BoundOpposite(_, _, _)
BoundOpposite(c, g, r) ==
    IF g.kind = "Variable" /\ c.kind = "Atom" THEN
        ~is_bound(g.var) =>
            (r.kind = "Variable" /\ resolves_to(r.var, c.atom))
    ELSE IF g.kind = "Functor" /\ c.kind = "Functor" THEN
        /\ r.kind = "Functor"
        /\ \A k \in 1..Min(Len(c.functor.args), Len(g.functor.args)) :
              /\ k <= Len(r.functor.args)
              /\ BoundOpposite(c.functor.args[k], g.functor.args[k],
                               r.functor.args[k])
    ELSE TRUE

\* C2: in the answer satisfy returns, every goal variable that was unbound
\* and stands opposite an atom of the chosen clause resolves to that atom,
\* at the top level of the goal and inside nested compound arguments.
C2_AnswerBindsOppositeAtoms ==
    (AfterSatisfy /\ answer.some) =>
        BoundOpposite(FunctorOf(Chosen), FunctorOf(goal.val),
                      FunctorOf(answer.val))

\* Two compound terms have the same name and argument count, and so have
\* the compound arguments that face each other, at every depth.
RECURSIVE SameShape(_, _)
SameShape(f, g) ==
    /\ f.name = g.name
    /\ Len(f.args) = Len(g.args)
    /\ \A k \in 1..Len(f.args) :
          (f.args[k].kind = "Functor" /\ g.args[k].kind = "Functor") =>
              SameShape(f.args[k].functor, g.args[k].functor)

\* C5: a goal is never answered from a clause whose compound terms differ
\* from the goal's facing compound terms in name or argument count, at the
\* top level or at any nesting depth.
C5_AnswerOnlyFromSameShape ==
    (AfterSatisfy /\ answer.some) => SameShape(Chosen, goal.val)

\* The atoms the variables of a term resolve to, position by position.
RECURSIVE AtomBindings(_)
AtomBindings(t) ==
    IF t.kind = "Variable" THEN resolve(t.var)
    ELSE IF t.kind = "Functor" THEN
        [k \in 1..Len(t.functor.args) |-> AtomBindings(t.functor.args[k])]
    ELSE t

\* C10: handing an answer of satisfy back as the goal against the same store
\* is answered again, with the same atoms for the same variables.
C10_ResubmitKeepsBindings ==
    (op.name = "resubmit") =>
        /\ answer.some
        /\ AtomBindings(FunctorOf(answer.val)) = AtomBindings(FunctorOf(goal.val))

(* ------------------------- claims about unify ------------------------- *)
\* A call of unify has been made.
Called == uop.calls > 0

\* The two functors passed hold equal atoms at every position but k, so
\* the call succeeds or fails by the pair at position k alone.
OnlyPair(k) ==
    /\ k \in 1..Len(ufst.args)
    /\ Len(ufst.args) = Len(usnd.args)
    /\ \A j \in (1..Len(ufst.args)) \ {k} :
          /\ ufst.args[j].kind = "Atom"
          /\ usnd.args[j] = ufst.args[j]

\* A variable linked to another one by an earlier unification of two
\* unbound variables: bound to a variable, resolving to no atom.
Linked(t) ==
    /\ t.kind = "Variable"
    /\ t.var.bound_to.kind = "Variable"
    /\ resolve(t.var).kind = "None"

\* C6: after two unbound variables have been unified with each other, a
\* later unification of either one with an atom a succeeds and the variable
\* resolves to a afterwards.
C6_LinkedThenAtom ==
    \A k \in 1..Len(ufst.args) :
        /\ (Called /\ OnlyPair(k) /\ Linked(usnd.args[k])
                /\ ufst.args[k].kind = "Atom") =>
              /\ ures.ok
              /\ resolves_to(ures.snd.args[k].var, ufst.args[k].atom)
        /\ (Called /\ OnlyPair(k) /\ Linked(ufst.args[k])
                /\ usnd.args[k].kind = "Atom") =>
              /\ ures.ok
              /\ resolves_to(ures.fst.args[k].var, usnd.args[k].atom)

\* A variable term that resolves to an atom.
Resolved(t) == t.kind = "Variable" /\ resolve(t.var).kind = "Atom"

\* C7: when the two arguments at a position are both variables and each
\* already resolves to an atom, the pair unifies iff the atoms are equal.
C7_BoundVariablesUnifyIffEqual ==
    \A k \in 1..Len(ufst.args) :
        (Called /\ OnlyPair(k) /\ Resolved(ufst.args[k])
            /\ Resolved(usnd.args[k])) =>
            (ures.ok <=> resolve(ufst.args[k].var) = resolve(usnd.args[k].var))

\* C8: when unify of two compounds fails, every variable has the binding it
\* had before the call.  (The second functor is moved into the call and
\* dropped when it fails; the first, behind the &mut, is what is left to
\* look at.)
C8_FailedUnifyLeavesTermsAlone ==
    (Called /\ ~ures.ok) => ures.fst = ufst

\* Every variable of term t that was bound keeps that binding in term r,
\* the same term after the call.
RECURSIVE BindingsKept(_, _)
BindingsKept(t, r) ==
    IF t.kind = "Variable" THEN
        is_bound(t.var) =>
            (r.kind = "Variable" /\ r.var.bound_to = t.var.bound_to)
    ELSE IF t.kind = "Functor" THEN
        /\ r.kind = "Functor"
        /\ Len(r.functor.args) = Len(t.functor.args)
        /\ \A k \in 1..Len(t.functor.args) :
              BindingsKept(t.functor.args[k], r.functor.args[k])
    ELSE TRUE

\* C9: unify never replaces the binding of a variable that is already bound
\* (to an atom or to another variable); it writes to empty bindings only.
C9_BindingsNeverReplaced ==
    Called =>
        /\ BindingsKept(FunctorOf(ufst), FunctorOf(ures.fst))
        /\ BindingsKept(FunctorOf(usnd), FunctorOf(ures.snd))

====
